---- MODULE Spec2Model ----
(***************************************************************************)
(* Model of the Iris SDK: the IrisClient HTTP client (getAd, handleError,  *)
(* updateExcludedTopics, getExcludedTopics) and the IrisAd React           *)
(* component (render and impression effect).                              *)
(*                                                                         *)
(* JavaScript values are tagged records with one shape, so that any two    *)
(* of them can be compared.  Arrays are objects on a heap: a variable or   *)
(* a field of the program holds a reference, and two holders of the same   *)
(* reference see each other's in-place mutations.                          *)
(***************************************************************************)
EXTENDS Integers, Sequences, FiniteSets, TLC

\* ---------------------------------------------------------------- bounds
MaxLen == 2         \* longest excluded-topics array the caller builds
NumRefs == 2        \* array objects alive at the same time
MaxCalls == 2       \* getAd calls in flight at the same time

\* ------------------------------------------------------- JavaScript values
Undefined == [t |-> "undefined", s |-> "", n |-> 0]
Null == [t |-> "null", s |-> "", n |-> 0]
Str(x) == [t |-> "string", s |-> x, n |-> 0]
Num(k) == [t |-> "number", s |-> "", n |-> k]

\* JavaScript truthiness of a primitive value (the test of `&&`, `if`, `!`).
Truthy(v) ==
  CASE v.t = "undefined" -> FALSE
    [] v.t = "null" -> FALSE
    [] v.t = "string" -> v.s /= ""
    [] v.t = "number" -> v.n /= 0
    [] OTHER -> TRUE

\* `a ?? b`: b only when a is null or undefined.
Nullish(a, b) == IF a.t \in {"undefined", "null"} THEN b ELSE a

\* A response body (response.data) or an advertisement: t is the kind of the
\* value itself; the other fields are what reading that property yields
\* (Undefined for a property that is absent).
MkObj(text, impUrl, clickUrl, payout, url) ==
  [t |-> "object", text |-> text, impUrl |-> impUrl, clickUrl |-> clickUrl,
   payout |-> payout, url |-> url]
NoProps(kind) ==
  [t |-> kind, text |-> Undefined, impUrl |-> Undefined, clickUrl |-> Undefined,
   payout |-> Undefined, url |-> Undefined]
NullV == NoProps("null")
UndefinedV == NoProps("undefined")
\* a body that is a non-empty string (an HTML error page, say): truthy, and
\* reading any property of it yields undefined
StringV == NoProps("string")

BodyTruthy(d) == d.t \in {"object", "string"}

\* ------------------------------------------------------------ error values
\* A value the POST promise can reject with.  hasResponse / hasRequest say
\* whether error.response / error.request are set; status, statusText and
\* data are the fields of error.response; code is error.code.
MkError(isAxios, hasResponse, status, statusText, data, hasRequest, code, message) ==
  [isAxiosError |-> isAxios, hasResponse |-> hasResponse, status |-> status,
   statusText |-> statusText, data |-> data, hasRequest |-> hasRequest,
   code |-> code, message |-> message]
NoError == MkError(FALSE, FALSE, 0, "", "", FALSE, Undefined, "")

\* isAxiosError recognising a transport error by its `request` field.
isAxiosError_duck(error) == error.isAxiosError \/ error.hasRequest

\* axios.isAxiosError(error)
isAxiosError(error) == error.isAxiosError

\* One console.error call: its first argument (label) and its second, which
\* is an object literal, a string or the raw error according to shape.
LogEntry(label, shape, status, statusText, data, message, code, raw) ==
  [label |-> label, shape |-> shape, status |-> status, statusText |-> statusText,
   data |-> data, message |-> message, code |-> code, raw |-> raw]

NoResponseMessage == "No response received from server"

\* handleError testing `request` before `response`.
handleError_requestFirst(error, method) ==
  IF isAxiosError(error)
  THEN IF error.hasRequest
       THEN << LogEntry("[IrisClient." \o method \o "] Network Error:", "object",
                        0, "", "", NoResponseMessage, error.code, NoError) >>
       ELSE IF error.hasResponse
       THEN << LogEntry("[IrisClient." \o method \o "] API Error:", "object",
                        error.status, error.statusText, error.data,
                        "", Undefined, NoError) >>
       ELSE << LogEntry("[IrisClient." \o method \o "] Request Error:", "string",
                        0, "", "", error.message, Undefined, NoError) >>
  ELSE << LogEntry("[IrisClient." \o method \o "] Unexpected Error:", "raw",
                   0, "", "", "", Undefined, error) >>

\* IrisClient.handleError: the console.error calls it makes, in order.
handleError(error, method) ==
  IF isAxiosError(error)
  THEN IF error.hasResponse
       THEN << LogEntry("[IrisClient." \o method \o "] API Error:", "object",
                        error.status, error.statusText, error.data,
                        "", Undefined, NoError) >>
       ELSE IF error.hasRequest
       THEN << LogEntry("[IrisClient." \o method \o "] Network Error:", "object",
                        0, "", "", NoResponseMessage, error.code, NoError) >>
       ELSE << LogEntry("[IrisClient." \o method \o "] Request Error:", "string",
                        0, "", "", error.message, Undefined, NoError) >>
  ELSE << LogEntry("[IrisClient." \o method \o "] Unexpected Error:", "raw",
                   0, "", "", "", Undefined, error) >>

\* ------------------------------------------------------- outcome of the POST
Fulfilled(data) == [settled |-> "fulfilled", data |-> data, error |-> NoError]
Rejected(error) == [settled |-> "rejected", data |-> UndefinedV, error |-> error]
NoOutcome == [settled |-> "pending", data |-> UndefinedV, error |-> NoError]

\* How a block of code ends: by returning value, or by throwing error.
Return(value, logs) == [kind |-> "return", value |-> value, error |-> NoError, logs |-> logs]
Throw(error, logs) == [kind |-> "throw", value |-> UndefinedV, error |-> error, logs |-> logs]
NoCompletion == [kind |-> "none", value |-> UndefinedV, error |-> NoError, logs |-> << >>]

\* getAdTry with the presence test of `text` written `!== undefined` and the
\* body read without the `response.data &&` guard (a null or undefined body
\* then throws a TypeError at `.text`).
TypeErrorValue == MkError(FALSE, FALSE, 0, "", "", FALSE, Undefined,
                          "Cannot read properties of null")
getAdTry_unguarded(outcome) ==
  IF outcome.settled = "rejected"
  THEN Throw(outcome.error, << >>)
  ELSE IF outcome.data.t \in {"undefined", "null"}
       THEN Throw(TypeErrorValue, << >>)
       ELSE IF outcome.data.text /= Undefined
            THEN Return(MkObj(outcome.data.text, outcome.data.impUrl,
                              outcome.data.clickUrl, outcome.data.payout, Undefined),
                        << >>)
            ELSE Return(NullV, << >>)

\* getAdTry with the URLs defaulted: `impUrl: response.data.impUrl ?? ''`.
getAdTry_defaulted(outcome) ==
  IF outcome.settled = "rejected"
  THEN Throw(outcome.error, << >>)
  ELSE IF BodyTruthy(outcome.data) /\ Truthy(outcome.data.text)
       THEN Return(MkObj(outcome.data.text, Nullish(outcome.data.impUrl, Str("")),
                         Nullish(outcome.data.clickUrl, Str("")),
                         outcome.data.payout, Undefined),
                   << >>)
       ELSE Return(NullV, << >>)

\* The try block of getAd after `await this.httpClient.post(...)` settles:
\* a rejection is thrown at the await; otherwise the mapping of response.data.
getAdTry(outcome) ==
  IF outcome.settled = "rejected"
  THEN Throw(outcome.error, << >>)
  ELSE IF BodyTruthy(outcome.data) /\ Truthy(outcome.data.text)
       THEN Return(MkObj(outcome.data.text, outcome.data.impUrl,
                         outcome.data.clickUrl, outcome.data.payout, Undefined),
                   << >>)
       ELSE Return(NullV, << >>)

\* getAdCatch that logs and rethrows what is not a transport error.
getAdCatch_rethrow(error) ==
  IF isAxiosError(error)
  THEN Return(NullV, handleError(error, "getAd"))
  ELSE Throw(error, handleError(error, "getAd"))

\* The catch block of getAd.
getAdCatch(error) == Return(NullV, handleError(error, "getAd"))

\* getAd from the settlement of its POST to its own completion.
getAdCompletion(outcome) ==
  LET body == getAdTry(outcome)
  IN IF body.kind = "throw" THEN getAdCatch(body.error) ELSE body

\* ------------------------------------------------------------------ inputs
Topics == {"politics", "adult"}
\* every array of topics of length at most n
TopicSeqs(n) == UNION {[1..k -> Topics] : k \in 0..n}
Refs == 1..NumRefs
NoRef == 0
Calls == 1..MaxCalls
ApiKeys == {"test-api-key-12345"}

TextValues == {Undefined, Null, Str(""), Str("Try our weather app!")}
UrlValues == {Undefined, Null, Str(""), Str("https://api.iristech.dev/t?id=abc123")}
PayoutValues == {Undefined, Num(0), Num(-1), Num(15)}
ExtraUrlValues == {Undefined, Str("https://example.com")}

ObjectBodies ==
  {MkObj(text, impUrl, clickUrl, payout, url) :
     text \in TextValues, impUrl \in UrlValues, clickUrl \in UrlValues,
     payout \in PayoutValues, url \in ExtraUrlValues}
Bodies == {UndefinedV, NullV, StringV} \cup ObjectBodies

StatusLines == {<<404, "Not Found">>, <<500, "Internal Server Error">>}
ErrorCodes == {Undefined, Str("ECONNABORTED"), Str("ECONNREFUSED")}
Errors ==
  {MkError(isAxios, hasResponse,
           IF hasResponse THEN sl[1] ELSE 0, IF hasResponse THEN sl[2] ELSE "",
           IF hasResponse THEN "Endpoint not found" ELSE "",
           hasRequest, code, "Request failed") :
     isAxios \in BOOLEAN, hasResponse \in BOOLEAN, sl \in StatusLines,
     hasRequest \in BOOLEAN, code \in ErrorCodes}

\* every way the POST can settle
Outcomes == {Fulfilled(d) : d \in Bodies} \cup {Rejected(e) : e \in Errors}

\* one representative of each way the POST can settle: an advertisement, no
\* advertisement, a server error, a timeout
FullAd == MkObj(Str("Try our weather app!"), Str("https://api.iristech.dev/t?id=abc123"),
                Str("https://api.iristech.dev/t?id=abc123"), Num(15), Undefined)
HttpError == MkError(TRUE, TRUE, 500, "Internal Server Error", "Endpoint not found",
                     TRUE, Undefined, "Request failed")
TimeoutError == MkError(TRUE, FALSE, 0, "", "", TRUE, Str("ECONNABORTED"), "Request failed")
CoreOutcomes == {Fulfilled(FullAd), Fulfilled(NullV), Rejected(HttpError), Rejected(TimeoutError)}

\* ------------------------------------------------------------------- state
VARIABLES
  apiKey,          \* IrisClient.apiKey
  excludedTopics,  \* IrisClient.excludedTopics: a reference to an array
  httpClient,      \* the settings axios.create was given
  heap,            \* the arrays: reference -> contents
  allocated,       \* the references of the arrays some holder can reach
  returned,        \* the array getExcludedTopics returned last, while the
                   \* caller keeps it for itself (NoRef: none)
  installed,       \* the array given to the constructor or to the latest
                   \* updateExcludedTopics
  pc,              \* per getAd call: "idle", "awaiting" (at the await), "done"
  args,            \* per call at the await: the arguments of getAd
  req,             \* per call at the await: the path and body given to
                   \* httpClient.post, the request in flight
  posts,           \* per call: how many times httpClient.post was called
  outcome,         \* per call: how its POST settled
  completion,      \* per call: how getAd ended, with its console.error calls
  mounted,         \* IrisAd: whether the component instance exists
  props,           \* IrisAd: the props of the latest render
  memoizedState,   \* IrisAd: the hooks React keeps for the instance after
                   \* the latest render: "null" (none) or "effect"
  pendingEffect,   \* IrisAd: the effect function React has yet to run, with
                   \* the ad.impUrl its closure holds
  output,          \* IrisAd: what the latest render returned
  fetchCalls,      \* IrisAd: the calls of fetch made for this instance
  activations,     \* IrisAd: renders of this instance that mounted the
                   \* effect: 0, 1, or 2 for "more than one"
  inflight,        \* the promises fetch returned that have not settled; the
                   \* component keeps none of them and attaches no handler
  hostErrors,      \* what reached the host page: "error" (an exception out
                   \* of the effect), "unhandledrejection"
  clicks,          \* clicks on the button of this instance
  handlerCalls,    \* the calls of props.onButtonClick
  openCalls        \* the calls of window.open

clientVars == <<apiKey, excludedTopics, httpClient>>
heapVars == <<heap, allocated, returned, installed>>
callVars == <<pc, args, req, posts, outcome, completion>>
viewVars == <<mounted, props, memoizedState, pendingEffect, output, fetchCalls,
              activations, inflight, hostErrors, clicks, handlerCalls, openCalls>>
vars == <<clientVars, heapVars, callVars, viewVars>>

RequestTimeoutMs == 10000

NoArgs == [inputPrompt |-> "", responsePrompt |-> "", userId |-> ""]
NoReq == [path |-> "", apiKey |-> "", inputPrompt |-> "", responsePrompt |-> "",
          userId |-> "", excludedTopics |-> << >>]

\* new IrisClient(apiKey, excludedTopics): the state after construction, the
\* caller holding the array t it passed.
constructor(key, t, topics) ==
  /\ apiKey = key
  /\ excludedTopics = t
  /\ httpClient = [baseURL |-> "https://api.iristech.dev",
                   timeout |-> RequestTimeoutMs,
                   contentType |-> "application/json",
                   authorization |-> "Bearer " \o key]
  /\ heap = [r \in Refs |-> IF r = t THEN topics ELSE << >>]
  /\ allocated = {t}
  /\ returned = NoRef
  /\ installed = t
  /\ pc = [c \in Calls |-> "idle"]
  /\ args = [c \in Calls |-> NoArgs]
  /\ req = [c \in Calls |-> NoReq]
  /\ posts = [c \in Calls |-> 0]
  /\ outcome = [c \in Calls |-> NoOutcome]
  /\ completion = [c \in Calls |-> NoCompletion]

\* No IrisAd is mounted.
NoIrisAdProps == [ad |-> UndefinedV, show |-> FALSE, buttonText |-> Undefined,
                  onButtonClick |-> FALSE]
NoEffect == [scheduled |-> FALSE, impUrl |-> Undefined]
\* An element of the rendered tree: its data-iris-ad marker and its content.
Element(marker, content) == [marker |-> marker, content |-> content]
\* `return null`: nothing is rendered.
NoOutput == [rendered |-> FALSE, container |-> "", text |-> Element("", Undefined),
             button |-> Element("", Undefined)]
Unmounted ==
  /\ mounted = FALSE
  /\ props = NoIrisAdProps
  /\ memoizedState = "null"
  /\ pendingEffect = NoEffect
  /\ output = NoOutput
  /\ fetchCalls = << >>
  /\ activations = 0
  /\ inflight = 0
  /\ hostErrors = {}
  /\ clicks = 0
  /\ handlerCalls = << >>
  /\ openCalls = << >>

Init ==
  /\ \E key \in ApiKeys, topics \in TopicSeqs(MaxLen) : constructor(key, 1, topics)
  /\ Unmounted

\* --------------------------------------------------------------- the caller
\* The caller builds a new array: `const t = [...]`.
CallerNewArray(r, topics) ==
  /\ r \notin allocated
  /\ heap' = [heap EXCEPT ![r] = topics]
  /\ allocated' = allocated \cup {r}
  /\ UNCHANGED <<clientVars, returned, installed, callVars, viewVars>>

\* The caller changes an array it holds in place: t.push(x).
CallerPush(r, x) ==
  /\ r \in allocated
  /\ Len(heap[r]) < MaxLen
  /\ heap' = [heap EXCEPT ![r] = Append(@, x)]
  /\ UNCHANGED <<clientVars, allocated, returned, installed, callVars, viewVars>>

\* The caller changes an array it holds in place: t.pop().
CallerPop(r) ==
  /\ r \in allocated
  /\ Len(heap[r]) > 0
  /\ heap' = [heap EXCEPT ![r] = SubSeq(@, 1, Len(@) - 1)]
  /\ UNCHANGED <<clientVars, allocated, returned, installed, callVars, viewVars>>

\* The caller lets go of an array the client does not reference: the array
\* is garbage and its reference can name a new array.
CallerDrop(r) ==
  /\ r \in allocated
  /\ r /= excludedTopics
  /\ heap' = [heap EXCEPT ![r] = << >>]
  /\ allocated' = allocated \ {r}
  /\ returned' = IF returned = r THEN NoRef ELSE returned
  /\ UNCHANGED <<clientVars, installed, callVars, viewVars>>

\* ------------------------------------------------------------ the client
\* updateExcludedTopics that leaves the list of the client as it was.
updateExcludedTopics_ignored(t) ==
  /\ t \in allocated
  /\ installed' = t
  /\ returned' = IF returned = t THEN NoRef ELSE returned
  /\ UNCHANGED <<clientVars, heap, allocated, callVars, viewVars>>

\* updateExcludedTopics of a client whose requests in flight read the list
\* of the client when they are sent, not when the call was made.
updateExcludedTopics_live(t) ==
  /\ t \in allocated
  /\ excludedTopics' = t
  /\ installed' = t
  /\ returned' = IF returned = t THEN NoRef ELSE returned
  /\ req' = [c \in Calls |-> IF pc[c] = "awaiting"
                             THEN [req[c] EXCEPT !.excludedTopics = heap[t]]
                             ELSE req[c]]
  /\ UNCHANGED <<apiKey, httpClient, heap, allocated, pc, args, posts, outcome,
                 completion, viewVars>>

\* updateExcludedTopics that builds the HTTP client anew, with the defaults
\* of axios.
updateExcludedTopics_rebuild(t) ==
  /\ t \in allocated
  /\ excludedTopics' = t
  /\ installed' = t
  /\ returned' = IF returned = t THEN NoRef ELSE returned
  /\ httpClient' = [httpClient EXCEPT !.timeout = 0, !.authorization = ""]
  /\ UNCHANGED <<apiKey, heap, allocated, callVars, viewVars>>

\* IrisClient.updateExcludedTopics(t), t an array the caller holds.
updateExcludedTopics(t) ==
  /\ t \in allocated
  /\ excludedTopics' = t
  /\ installed' = t
  /\ returned' = IF returned = t THEN NoRef ELSE returned
  /\ UNCHANGED <<apiKey, httpClient, heap, allocated, callVars, viewVars>>

\* getExcludedTopics written `return this.excludedTopics`: the array of the
\* client itself is returned.
getExcludedTopics_alias(r) ==
  /\ r \notin allocated
  /\ returned' = excludedTopics
  /\ UNCHANGED <<clientVars, heap, allocated, installed, callVars, viewVars>>

\* IrisClient.getExcludedTopics(): `[...this.excludedTopics]` is a new array
\* r with the contents of the client's.
getExcludedTopics(r) ==
  /\ r \notin allocated
  /\ heap' = [heap EXCEPT ![r] = heap[excludedTopics]]
  /\ allocated' = allocated \cup {r}
  /\ returned' = r
  /\ UNCHANGED <<clientVars, installed, callVars, viewVars>>

\* The body getAd gives to httpClient.post.
getAdBody(inputPrompt, responsePrompt, userId) ==
  [path |-> "/bids", apiKey |-> apiKey, inputPrompt |-> inputPrompt,
   responsePrompt |-> responsePrompt, userId |-> userId,
   excludedTopics |-> heap[excludedTopics]]

\* IrisClient.getAd up to its await: one httpClient.post is issued.
getAdPost(c, inputPrompt, responsePrompt, userId) ==
  /\ pc[c] = "idle"
  /\ pc' = [pc EXCEPT ![c] = "awaiting"]
  /\ args' = [args EXCEPT ![c] = [inputPrompt |-> inputPrompt,
                                  responsePrompt |-> responsePrompt,
                                  userId |-> userId]]
  /\ req' = [req EXCEPT ![c] = getAdBody(inputPrompt, responsePrompt, userId)]
  /\ posts' = [posts EXCEPT ![c] = @ + 1]
  /\ UNCHANGED <<clientVars, heapVars, outcome, completion, viewVars>>

\* getAdSettle that posts once more when the first POST is rejected.
getAdSettle_retry(c, o) ==
  /\ pc[c] = "awaiting"
  /\ IF o.settled = "rejected" /\ posts[c] < 2
     THEN /\ posts' = [posts EXCEPT ![c] = @ + 1]
          /\ UNCHANGED <<pc, outcome, completion, args, req>>
     ELSE /\ pc' = [pc EXCEPT ![c] = "done"]
          /\ outcome' = [outcome EXCEPT ![c] = o]
          /\ completion' = [completion EXCEPT ![c] = getAdCompletion(o)]
          /\ args' = [args EXCEPT ![c] = NoArgs]
          /\ req' = [req EXCEPT ![c] = NoReq]
          /\ UNCHANGED posts
  /\ UNCHANGED <<clientVars, heapVars, viewVars>>

\* getAdSettle of a client that gives up every call in flight when one POST
\* is rejected.
getAdSettle_shared(c, o) ==
  /\ pc[c] = "awaiting"
  /\ LET hit == IF o.settled = "rejected"
                THEN {d \in Calls : pc[d] = "awaiting"}
                ELSE {c}
     IN /\ pc' = [d \in Calls |-> IF d \in hit THEN "done" ELSE pc[d]]
        /\ outcome' = [d \in Calls |-> IF d \in hit THEN o ELSE outcome[d]]
        /\ completion' = [d \in Calls |->
                            IF d \in hit THEN getAdCompletion(o) ELSE completion[d]]
        /\ args' = [d \in Calls |-> IF d \in hit THEN NoArgs ELSE args[d]]
        /\ req' = [d \in Calls |-> IF d \in hit THEN NoReq ELSE req[d]]
  /\ UNCHANGED <<clientVars, heapVars, posts, viewVars>>

\* IrisClient.getAd from the settlement of the POST to its return.
getAdSettle(c, o) ==
  /\ pc[c] = "awaiting"
  /\ pc' = [pc EXCEPT ![c] = "done"]
  /\ outcome' = [outcome EXCEPT ![c] = o]
  /\ completion' = [completion EXCEPT ![c] = getAdCompletion(o)]
  /\ args' = [args EXCEPT ![c] = NoArgs]
  /\ req' = [req EXCEPT ![c] = NoReq]
  /\ UNCHANGED <<clientVars, heapVars, posts, viewVars>>

\* The caller takes the result of a finished call; the slot is free again.
CallerTakeResult(c) ==
  /\ pc[c] = "done"
  /\ pc' = [pc EXCEPT ![c] = "idle"]
  /\ posts' = [posts EXCEPT ![c] = 0]
  /\ outcome' = [outcome EXCEPT ![c] = NoOutcome]
  /\ completion' = [completion EXCEPT ![c] = NoCompletion]
  /\ UNCHANGED <<clientVars, heapVars, args, req, viewVars>>

InputPrompts == {"What is the weather like?"}
ResponsePrompts == {"The weather is sunny today."}
UserIds == {"user-123"}

\* The client used by one caller that awaits each getAd before the next:
\* the topics are replaced, read and changed in place between calls and
\* while a call is in flight.
Next ==
  \/ \E r \in Refs, topics \in TopicSeqs(MaxLen) : CallerNewArray(r, topics)
  \/ \E r \in Refs, x \in Topics : CallerPush(r, x)
  \/ \E r \in Refs : CallerPop(r)
  \/ \E r \in Refs : CallerDrop(r)
  \/ \E t \in Refs : updateExcludedTopics(t)
  \/ \E r \in Refs : getExcludedTopics(r)
  \/ \E i \in InputPrompts, p \in ResponsePrompts, u \in UserIds :
       getAdPost(1, i, p, u)
  \/ \E o \in CoreOutcomes : getAdSettle(1, o)
  \/ CallerTakeResult(1)

Spec == Init /\ [][Next]_vars

\* One caller awaiting each getAd before the next, the POST settling in every
\* way it can.
AllInputPrompts == {"What is the weather like?", "How do I learn guitar?"}
ResponseNext ==
  \/ \E i \in AllInputPrompts, p \in ResponsePrompts, u \in UserIds :
       getAdPost(1, i, p, u)
  \/ \E o \in Outcomes : getAdSettle(1, o)
  \/ CallerTakeResult(1)

ResponseSpec == Init /\ [][ResponseNext]_vars

\* Several getAd calls in flight on one client, each POST settling on its own.
ConcurrentNext ==
  \/ \E c \in Calls, i \in InputPrompts, p \in ResponsePrompts, u \in UserIds :
       getAdPost(c, i, p, u)
  \/ \E c \in Calls, o \in CoreOutcomes : getAdSettle(c, o)
  \/ \E c \in Calls : CallerTakeResult(c)

ConcurrentSpec == Init /\ [][ConcurrentNext]_vars

\* ------------------------------------------------------------------ IrisAd
MaxRequests == 3    \* fetch calls recorded for one component instance
MaxClicks == 2      \* clicks recorded for one component instance

AdTexts == {Str("Test Advertisement Text"), Str("")}
ImpUrls == {Undefined, Null, Str(""), Str("https://x/imp"), Str("https://y/imp")}
ButtonTexts == {Undefined, Str("Click Here")}
ViewAds ==
  {NullV, UndefinedV} \cup
  {MkObj(text, impUrl, Undefined, Undefined, Undefined) :
     text \in AdTexts, impUrl \in ImpUrls}
\* onButtonClick: whether the host passed a handler.
ViewProps == [ad : ViewAds, show : BOOLEAN, buttonText : ButtonTexts,
              onButtonClick : {FALSE}]

\* `!show || !ad`: the early return of IrisAd.
EarlyReturn_showOnly(p) == ~ p.show
EarlyReturn(p) == (~ p.show) \/ (~ BodyTruthy(p.ad))

\* `buttonText = 'Learn More'`: the default of the destructured prop, taken
\* when the prop is undefined.
ButtonLabel_fixed(p) == Str("Learn More")
ButtonLabel(p) ==
  IF p.buttonText.t = "undefined" THEN Str("Learn More") ELSE p.buttonText

\* The tree IrisAd returns when it renders: the container div with the text
\* paragraph and the button.
Rendered(p) ==
  [rendered |-> TRUE, container |-> "container",
   text |-> Element("text", p.ad.text),
   button |-> Element("button", ButtonLabel(p))]

\* The hooks React keeps for the instance, and the hooks a render with props
\* p calls: none when it returns early, useEffect otherwise.
HooksOf(state) == IF state = "null" THEN 0 ELSE 1
HooksCalled(p) == IF EarlyReturn(p) THEN 0 ELSE 1

\* React's test after an update render, which makes the render throw
\* "Rendered fewer hooks than expected": the last hook the render reached
\* exists and has a successor.  A render that called no hook reached none.
didRenderTooFewHooks_strict(previous, called) == called < previous
didRenderTooFewHooks(previous, called) == called > 0 /\ called < previous

\* The render of the function component, mount or update: React picks the
\* mount form of useEffect when the instance has no hooks from the render
\* before (it is new, or that render returned before useEffect), and the
\* update form otherwise; with the dependency list [] the update form never
\* schedules the effect again.  A render that returns before useEffect
\* leaves the instance without hooks.  A render that throws gives the error
\* to the host and commits nothing.
IrisAd(p) ==
  /\ ~ pendingEffect.scheduled
  /\ Len(fetchCalls) < MaxRequests
  /\ IF /\ memoizedState /= "null"
        /\ didRenderTooFewHooks(HooksOf(memoizedState), HooksCalled(p))
     THEN /\ hostErrors' = hostErrors \cup {"error"}
          /\ UNCHANGED <<mounted, props, output, memoizedState, pendingEffect,
                         activations>>
     ELSE /\ hostErrors' = hostErrors
          /\ mounted' = TRUE
          /\ props' = p
          /\ IF EarlyReturn(p)
             THEN /\ output' = NoOutput
                  /\ memoizedState' = "null"
                  /\ pendingEffect' = NoEffect
                  /\ activations' = activations
             ELSE /\ output' = Rendered(p)
                  /\ memoizedState' = "effect"
                  /\ IF memoizedState = "null"
                     THEN /\ pendingEffect' = [scheduled |-> TRUE,
                                               impUrl |-> p.ad.impUrl]
                          /\ activations' = IF activations = 0 THEN 1 ELSE 2
                     ELSE /\ pendingEffect' = NoEffect
                          /\ activations' = activations
  /\ UNCHANGED <<clientVars, heapVars, callVars, fetchCalls, inflight,
                 clicks, handlerCalls, openCalls>>

\* `if (!ad.impUrl) return;`: whether the effect goes on to call fetch.
ShouldFire_always(impUrl) == TRUE
ShouldFire(impUrl) == Truthy(impUrl)

\* What a call of fetch can do: throw before it returns, or return a
\* promise that settles later.
FetchBehaviours == {"throws", "promise"}
FetchResults == {"fulfilled", "rejected"}

\* The function given to useEffect, run by React after the render that
\* scheduled it: `if (!ad.impUrl) return; try { fetch(ad.impUrl, {...}) }
\* catch (_) {}`.  An exception thrown by the call is caught; the promise
\* the call returns is dropped.
impressionEffect(behaviour) ==
  /\ pendingEffect.scheduled
  /\ pendingEffect' = NoEffect
  /\ IF ShouldFire(pendingEffect.impUrl)
     THEN /\ fetchCalls' = Append(fetchCalls, [url |-> pendingEffect.impUrl,
                                               method |-> "GET", mode |-> "no-cors"])
          /\ inflight' = IF behaviour = "promise" THEN inflight + 1 ELSE inflight
     ELSE UNCHANGED <<fetchCalls, inflight>>
  /\ UNCHANGED <<clientVars, heapVars, callVars, mounted, props, memoizedState, output,
                 activations, hostErrors, clicks, handlerCalls, openCalls>>

\* A promise returned by fetch settles.  It has no rejection handler, so a
\* rejection is reported to the host as an unhandled rejection.
FetchSettle(result) ==
  /\ inflight > 0
  /\ inflight' = inflight - 1
  /\ hostErrors' = IF result = "rejected"
                   THEN hostErrors \cup {"unhandledrejection"}
                   ELSE hostErrors
  /\ UNCHANGED <<clientVars, heapVars, callVars, mounted, props, memoizedState,
                 pendingEffect, output, fetchCalls, activations, clicks,
                 handlerCalls, openCalls>>

\* `targetUrl ?? ''`: the first argument of the custom handler.
HandlerUrl_raw(targetUrl) == targetUrl
HandlerUrl(targetUrl) == Nullish(targetUrl, Str(""))

\* `if (targetUrl)`: whether the default click opens a window.
ShouldOpen_present(targetUrl) == targetUrl.t \notin {"undefined", "null"}
ShouldOpen(targetUrl) == Truthy(targetUrl)

\* `window.open(targetUrl, '_blank', 'noopener,noreferrer')`.
OpenCall_sameTab(targetUrl) ==
  [url |-> targetUrl, target |-> "_self", features |-> ""]
OpenCall(targetUrl) ==
  [url |-> targetUrl, target |-> "_blank", features |-> "noopener,noreferrer"]

\* handleButtonClick that opens the window for the first click only and
\* reports every click to impUrl.
handleButtonClick_oneShot ==
  /\ mounted
  /\ output.rendered
  /\ ~ pendingEffect.scheduled
  /\ clicks < MaxClicks
  /\ Len(fetchCalls) < MaxRequests
  /\ clicks' = clicks + 1
  /\ handlerCalls' = handlerCalls
  /\ openCalls' = IF clicks = 0 /\ ShouldOpen(props.ad.clickUrl)
                  THEN Append(openCalls, OpenCall(props.ad.clickUrl))
                  ELSE openCalls
  /\ fetchCalls' = Append(fetchCalls, [url |-> props.ad.impUrl, method |-> "GET",
                                       mode |-> "no-cors"])
  /\ UNCHANGED <<clientVars, heapVars, callVars, mounted, props, memoizedState,
                 pendingEffect, output, activations, inflight, hostErrors>>

\* A click on the rendered button runs handleButtonClick of the latest
\* render; the event is identified by the ordinal of the click.
handleButtonClick ==
  /\ mounted
  /\ output.rendered
  /\ ~ pendingEffect.scheduled
  /\ clicks < MaxClicks
  /\ clicks' = clicks + 1
  /\ LET targetUrl == props.ad.clickUrl IN
       IF props.onButtonClick
       THEN /\ handlerCalls' = Append(handlerCalls, [url |-> HandlerUrl(targetUrl),
                                                     event |-> clicks + 1])
            /\ openCalls' = openCalls
       ELSE /\ handlerCalls' = handlerCalls
            /\ openCalls' = IF ShouldOpen(targetUrl)
                            THEN Append(openCalls, OpenCall(targetUrl))
                            ELSE openCalls
  /\ UNCHANGED <<clientVars, heapVars, callVars, mounted, props, memoizedState,
                 pendingEffect, output, fetchCalls, activations, inflight, hostErrors>>

\* The host removes the component: the instance and its hooks are gone, and
\* a later render is the mount of another instance.
Unmount ==
  /\ mounted
  /\ ~ pendingEffect.scheduled
  /\ mounted' = FALSE
  /\ props' = NoIrisAdProps
  /\ memoizedState' = "null"
  /\ pendingEffect' = NoEffect
  /\ output' = NoOutput
  /\ fetchCalls' = << >>
  /\ activations' = 0
  /\ inflight' = 0
  /\ hostErrors' = {}
  /\ clicks' = 0
  /\ handlerCalls' = << >>
  /\ openCalls' = << >>
  /\ UNCHANGED <<clientVars, heapVars, callVars>>

ViewInit ==
  /\ constructor("test-api-key-12345", 1, << >>)
  /\ Unmounted

ViewNext ==
  \/ \E p \in ViewProps : IrisAd(p)
  \/ \E behaviour \in FetchBehaviours : impressionEffect(behaviour)
  \/ \E result \in FetchResults : FetchSettle(result)
  \/ Unmount

ViewSpec == ViewInit /\ [][ViewNext]_vars

\* Clicks: the component rendered with every kind of clickUrl, with and
\* without a custom handler.
ClickUrls ==
  {Undefined, Null, Str(""), Str("https://example.com/click"),
   Str("https://example.com/aaaaaaaaaaaaaaaaaaaaaaaaaaaaaaaaaaaaaaaa")}
ClickAds ==
  {NullV} \cup
  {MkObj(Str("Test Advertisement Text"), impUrl, clickUrl, Undefined, Undefined) :
     impUrl \in {Undefined, Str("https://x/imp")}, clickUrl \in ClickUrls}
ClickProps == [ad : ClickAds, show : BOOLEAN, buttonText : {Undefined},
               onButtonClick : BOOLEAN]

ClickNext ==
  \/ \E p \in ClickProps : IrisAd(p)
  \/ impressionEffect("promise")
  \/ handleButtonClick
  \/ Unmount

ClickSpec == ViewInit /\ [][ClickNext]_vars

\* ------------------------------------------------------------------ claims
Done(c) == pc[c] = "done"
Result(c) == completion[c].value
Logs(c) == completion[c].logs

\* C1: getAd never raises to its caller: however the POST settles (any body,
\* or a rejection with any error value), the call ends by returning, and what
\* it returns is an advertisement or null.
C1_NeverRaises ==
  \A c \in Calls : Done(c) =>
    /\ completion[c].kind = "return"
    /\ Result(c).t \in {"object", "null"}

\* a call whose POST rejected with a value that is not a transport error has
\* returned
C1_Witness ==
  \E c \in Calls :
    /\ Done(c)
    /\ outcome[c].settled = "rejected"
    /\ ~ outcome[c].error.isAxiosError
    /\ completion[c].kind = "return"

\* C2: when the POST rejects, getAd returns null and makes exactly one
\* console.error call, of the shape of the failure: a transport error with a
\* response logs status, statusText and the response body under 'API Error';
\* one with a request and no response logs the fixed message and the code
\* under 'Network Error'; one with neither logs the message under 'Request
\* Error'; any other value is logged raw under 'Unexpected Error'.
C2_Expected(e) ==
  IF e.isAxiosError /\ e.hasResponse
  THEN LogEntry("[IrisClient.getAd] API Error:", "object",
                e.status, e.statusText, e.data, "", Undefined, NoError)
  ELSE IF e.isAxiosError /\ e.hasRequest
  THEN LogEntry("[IrisClient.getAd] Network Error:", "object",
                0, "", "", "No response received from server", e.code, NoError)
  ELSE IF e.isAxiosError
  THEN LogEntry("[IrisClient.getAd] Request Error:", "string",
                0, "", "", e.message, Undefined, NoError)
  ELSE LogEntry("[IrisClient.getAd] Unexpected Error:", "raw",
                0, "", "", "", Undefined, e)

C2_OneLogPerFailure ==
  \A c \in Calls : (Done(c) /\ outcome[c].settled = "rejected") =>
    /\ completion[c].kind = "return"
    /\ Result(c) = NullV
    /\ Logs(c) = << C2_Expected(outcome[c].error) >>

\* a call that failed with an HTTP 404 carrying the request as well has
\* returned null with one 'API Error' entry
C2_Witness ==
  \E c \in Calls :
    /\ Done(c)
    /\ outcome[c].settled = "rejected"
    /\ outcome[c].error.isAxiosError
    /\ outcome[c].error.hasResponse
    /\ outcome[c].error.hasRequest
    /\ outcome[c].error.status = 404
    /\ Result(c) = NullV
    /\ Len(Logs(c)) = 1
    /\ Logs(c)[1].label = "[IrisClient.getAd] API Error:"

\* C3 as stated: a fulfilled response with a body and a `text` that is
\* neither missing nor null yields an advertisement, the empty string
\* counting as present.
C3_EmptyTextIsAnAd ==
  \A c \in Calls :
    (/\ Done(c)
     /\ outcome[c].settled = "fulfilled"
     /\ outcome[c].data.t = "object"
     /\ outcome[c].data.text.t \notin {"undefined", "null"})
    => Result(c).t = "object"

\* C3 amended: a fulfilled response yields an advertisement exactly when the
\* body is present and `text` is a non-empty string; an empty-string text,
\* like a missing or null one, yields null.
C3_TruthyTextIsAnAd ==
  \A c \in Calls : (Done(c) /\ outcome[c].settled = "fulfilled") =>
    (Result(c).t = "object"
       <=> (/\ outcome[c].data.t = "object"
            /\ outcome[c].data.text.t = "string"
            /\ outcome[c].data.text.s /= ""))

\* a call answered with a body whose text is the empty string has returned
\* null
C3_Witness ==
  \E c \in Calls :
    /\ Done(c)
    /\ outcome[c].settled = "fulfilled"
    /\ outcome[c].data.t = "object"
    /\ outcome[c].data.text = Str("")
    /\ Result(c) = NullV

\* C4: an advertisement returned by getAd has the text, impUrl, clickUrl and
\* payout of the response body, read as they are: null stays null, an absent
\* field reads undefined, an empty string stays empty, a zero or negative
\* payout is unchanged.
C4_VerbatimFields ==
  \A c \in Calls : (Done(c) /\ Result(c).t = "object") =>
    /\ outcome[c].settled = "fulfilled"
    /\ Result(c).text = outcome[c].data.text
    /\ Result(c).impUrl = outcome[c].data.impUrl
    /\ Result(c).clickUrl = outcome[c].data.clickUrl
    /\ Result(c).payout = outcome[c].data.payout

\* an advertisement was returned for a body with a null impUrl, an
\* empty-string clickUrl and a negative payout
C4_Witness ==
  \E c \in Calls :
    /\ Done(c)
    /\ Result(c).t = "object"
    /\ outcome[c].data.impUrl = Null
    /\ outcome[c].data.clickUrl = Str("")
    /\ outcome[c].data.payout = Num(-1)
    /\ Result(c).impUrl = Null

\* C5: a fulfilled response whose body is null or undefined, or has no
\* `text` field, makes getAd return null without any console.error call.
C5_NoAdIsSilent ==
  \A c \in Calls :
    (/\ Done(c)
     /\ outcome[c].settled = "fulfilled"
     /\ \/ outcome[c].data.t \in {"undefined", "null"}
        \/ outcome[c].data.text = Undefined)
    => /\ completion[c].kind = "return"
       /\ Result(c) = NullV
       /\ Logs(c) = << >>

\* a call answered with a null body has returned null and logged nothing
C5_Witness ==
  \E c \in Calls :
    /\ Done(c)
    /\ outcome[c].settled = "fulfilled"
    /\ outcome[c].data = NullV
    /\ Result(c) = NullV
    /\ Logs(c) = << >>

\* What getExcludedTopics() would return and what getAd would send now.
ClientTopics == heap[excludedTopics]

\* C6 as stated: the list of the client is a private copy; a step that
\* changes in place the array the caller gave to the constructor or to the
\* latest updateExcludedTopics changes neither what getExcludedTopics()
\* returns afterwards nor the excludedTopics a later getAd sends.
C6_PrivateCopy ==
  [][(installed' = installed /\ heap'[installed] /= heap[installed])
       => ClientTopics' = ClientTopics]_vars

\* C7: getExcludedTopics() returns a new array with the elements of the
\* array last installed, in the same order; and a step that changes in place
\* an array getExcludedTopics() returned (and the caller kept for itself)
\* leaves unchanged what the next getExcludedTopics() returns.
C7_GetReturnsCopy ==
  [][/\ (returned' /= NoRef /\ returned' /= returned)
          => heap'[returned'] = heap[installed]
     /\ (returned /= NoRef /\ returned' = returned
           /\ heap'[returned] /= heap[returned])
          => ClientTopics' = ClientTopics]_vars

\* after updateExcludedTopics with a two-topic array, the caller holds a
\* result of getExcludedTopics() that it changed, and the list of the client
\* still is the installed one
C7_Witness ==
  /\ installed = 2
  /\ returned = 1
  /\ Len(heap[installed]) = 2
  /\ heap[installed][1] /= heap[installed][2]
  /\ heap[returned] /= heap[installed]
  /\ ClientTopics = heap[installed]

\* C8: the POST of a getAd call carries the key of the client, the three
\* arguments of the call, and the topics of the array installed last before
\* the call (by the constructor, or by the latest updateExcludedTopics).
C8_BodyOfRequest ==
  [][\A c \in Calls : (pc[c] = "idle" /\ pc'[c] = "awaiting") =>
       req'[c] = [path |-> "/bids", apiKey |-> apiKey,
                  inputPrompt |-> args'[c].inputPrompt,
                  responsePrompt |-> args'[c].responsePrompt,
                  userId |-> args'[c].userId,
                  excludedTopics |-> heap[installed]]]_vars

\* a call is in flight that was made after an updateExcludedTopics and
\* carries the two topics of the updated array, in their order
C8_Witness ==
  /\ pc[1] = "awaiting"
  /\ installed = 2
  /\ req[1].excludedTopics = heap[installed]
  /\ Len(req[1].excludedTopics) = 2
  /\ req[1].excludedTopics[1] /= req[1].excludedTopics[2]
  /\ req[1].inputPrompt \in InputPrompts
  /\ req[1].apiKey = apiKey

C10_AtMostOneImpression == mounted => Len(fetchCalls) <= 1

\* C11: the render that first makes the instance active schedules the
\* effect with the impUrl of that render's advertisement, and when that
\* effect runs it makes exactly one fetch call, to that impUrl as it is with
\* method GET and mode no-cors, if impUrl is a non-empty string, and no fetch
\* call otherwise (absent, null or empty).
C11_FirstActivationFires ==
  [][/\ (activations = 0 /\ activations' = 1) =>
          /\ props'.show
          /\ props'.ad.t = "object"
          /\ pendingEffect' = [scheduled |-> TRUE, impUrl |-> props'.ad.impUrl]
          /\ fetchCalls' = << >>
     /\ (activations = 1 /\ pendingEffect.scheduled /\ ~ pendingEffect'.scheduled) =>
          /\ fetchCalls = << >>
          /\ fetchCalls' =
               IF props.ad.impUrl.t = "string" /\ props.ad.impUrl.s /= ""
               THEN << [url |-> props.ad.impUrl, method |-> "GET", mode |-> "no-cors"] >>
               ELSE << >>]_vars

\* the first activation of an instance, with impUrl https://x/imp, has made
\* its one request
C11_Witness ==
  /\ mounted
  /\ activations = 1
  /\ ~ pendingEffect.scheduled
  /\ props.ad.impUrl = Str("https://x/imp")
  /\ fetchCalls = << [url |-> Str("https://x/imp"), method |-> "GET", mode |-> "no-cors"] >>

\* C12: after a render with show false, or with the advertisement null or
\* undefined, nothing is rendered (no container, no text, no button) and no
\* effect is waiting to run; an instance that has only been rendered so has
\* made no fetch call, whatever impUrl its advertisement carries.
C12_InactiveRendersNothing ==
  /\ (mounted /\ ((~ props.show) \/ props.ad.t \in {"null", "undefined"})) =>
       /\ ~ output.rendered
       /\ output.container = ""
       /\ output.text.marker = ""
       /\ output.button.marker = ""
       /\ ~ pendingEffect.scheduled
  /\ (mounted /\ activations = 0) => fetchCalls = << >>

\* an instance rendered with show false and an advertisement that has an
\* impUrl: nothing rendered, nothing fetched
C12_Witness ==
  /\ mounted
  /\ ~ props.show
  /\ props.ad.impUrl = Str("https://x/imp")
  /\ activations = 0
  /\ ~ output.rendered
  /\ fetchCalls = << >>

\* C13 as stated: whether fetch throws or the promise it returns rejects,
\* no error and no unhandled rejection reaches the host.
C13_FailureIsSilent == hostErrors = {}

\* C14: with a custom handler, a click calls the handler once, with clickUrl
\* (the empty string when clickUrl is undefined or null) and the event of
\* that click, and does not call window.open.
C14_HandlerReplacesDefault ==
  [][(clicks' = clicks + 1 /\ props.onButtonClick) =>
       /\ handlerCalls' =
            Append(handlerCalls,
                   [url |-> IF props.ad.clickUrl.t \in {"undefined", "null"}
                            THEN Str("") ELSE props.ad.clickUrl,
                    event |-> clicks'])
       /\ openCalls' = openCalls]_vars

\* a click with a handler and a null clickUrl: the handler got the empty
\* string and no window was opened
C14_Witness ==
  /\ clicks = 1
  /\ props.onButtonClick
  /\ props.ad.clickUrl = Null
  /\ handlerCalls = << [url |-> Str(""), event |-> 1] >>
  /\ openCalls = << >>

\* C15: without a custom handler and with a non-empty clickUrl, a click
\* makes one window.open call, with that URL as it is, '_blank' and
\* 'noopener,noreferrer'.
C15_OpensClickUrl ==
  [][(/\ clicks' = clicks + 1
      /\ ~ props.onButtonClick
      /\ props.ad.clickUrl.t = "string"
      /\ props.ad.clickUrl.s /= "") =>
       /\ openCalls' = Append(openCalls, [url |-> props.ad.clickUrl, target |-> "_blank",
                                          features |-> "noopener,noreferrer"])
       /\ handlerCalls' = handlerCalls]_vars

\* two clicks on an advertisement with the long click URL opened it twice
C15_Witness ==
  /\ clicks = 2
  /\ ~ props.onButtonClick
  /\ Len(openCalls) = 2
  /\ \A i \in 1..2 :
       openCalls[i] =
         [url |-> Str("https://example.com/aaaaaaaaaaaaaaaaaaaaaaaaaaaaaaaaaaaaaaaa"),
          target |-> "_blank", features |-> "noopener,noreferrer"]

\* C16 as stated: without a custom handler and with clickUrl the empty
\* string, a click calls window.open('', '_blank', 'noopener,noreferrer').
C16_OpensEmptyString ==
  [][(clicks' = clicks + 1 /\ ~ props.onButtonClick /\ props.ad.clickUrl = Str("")) =>
       openCalls' = Append(openCalls, [url |-> Str(""), target |-> "_blank",
                                       features |-> "noopener,noreferrer"])]_vars

C18_NotNetworkError ==
  \A c \in Calls :
    (/\ Done(c)
     /\ outcome[c].settled = "rejected"
     /\ ~ outcome[c].error.isAxiosError
     /\ outcome[c].error.hasRequest
     /\ outcome[c].error.code.t = "string") =>
      /\ completion[c].kind = "return"
      /\ Result(c) = NullV
      /\ Len(Logs(c)) = 1
      /\ Logs(c)[1].label = "[IrisClient.getAd] Unexpected Error:"
      /\ Logs(c)[1].shape = "raw"
      /\ Logs(c)[1].raw = outcome[c].error

\* a call rejected with a plain Error carrying request and ECONNREFUSED has
\* returned null
C18_Witness ==
  \E c \in Calls :
    /\ Done(c)
    /\ outcome[c].settled = "rejected"
    /\ ~ outcome[c].error.isAxiosError
    /\ outcome[c].error.hasRequest
    /\ ~ outcome[c].error.hasResponse
    /\ outcome[c].error.code = Str("ECONNREFUSED")
    /\ Result(c) = NullV
    /\ Logs(c)[1].label = "[IrisClient.getAd] Unexpected Error:"

\* C19 as stated: for a body with text, impUrl, clickUrl, payout and url, the
\* advertisement getAd returns equals the body, url included.
C19_UrlCarried ==
  \A c \in Calls :
    (/\ Done(c)
     /\ outcome[c].settled = "fulfilled"
     /\ outcome[c].data.t = "object"
     /\ Truthy(outcome[c].data.text)
     /\ outcome[c].data.url.t = "string") =>
      Result(c) = outcome[c].data

\* C20: after a render with show true and an advertisement object, the
\* output is one container marked "container" holding the text element
\* marked "text" with the advertisement's text and the button marked
\* "button" labelled buttonText, or "Learn More" when buttonText is not given.
C20_RenderedTree ==
  (mounted /\ props.show /\ props.ad.t = "object") =>
    /\ output.rendered
    /\ output.container = "container"
    /\ output.text = [marker |-> "text", content |-> props.ad.text]
    /\ output.button =
         [marker |-> "button",
          content |-> IF props.buttonText.t = "undefined"
                      THEN Str("Learn More") ELSE props.buttonText]

\* an advertisement with empty text rendered with buttonText "Click Here"
C20_Witness ==
  /\ mounted
  /\ props.show
  /\ props.ad.t = "object"
  /\ props.ad.text = Str("")
  /\ props.buttonText = Str("Click Here")
  /\ output.rendered
  /\ output.text.content = Str("")
  /\ output.button.content = Str("Click Here")

\* C21: re-rendering a mounted instance from active to inactive and back
\* gives no error to the host; after an inactive render nothing is rendered
\* and no effect is registered, and after a render that activates the
\* instance the effect is registered.
C21_ToggleRaisesNothing ==
  /\ "error" \notin hostErrors
  /\ (mounted /\ memoizedState = "null") =>
       (~ output.rendered /\ ~ pendingEffect.scheduled)
  /\ (mounted /\ pendingEffect.scheduled) =>
       (output.rendered /\ memoizedState = "effect")

\* an instance that was active, then inactive, and is active again
C21_Witness ==
  /\ mounted
  /\ activations = 2
  /\ output.rendered
  /\ props.show
  /\ "error" \notin hostErrors

\* C22: when a getAd call finishes, its result is the advertisement of its
\* own response body, or null when its own POST failed or carried no
\* advertisement; the step changes nothing of any other call, finished or in
\* flight, and nothing of the client.
C22_CallsIndependent ==
  [][\A c \in Calls : (pc[c] = "awaiting" /\ pc'[c] = "done") =>
       /\ completion'[c].kind = "return"
       /\ IF /\ outcome'[c].settled = "fulfilled"
             /\ outcome'[c].data.t = "object"
             /\ Truthy(outcome'[c].data.text)
          THEN /\ completion'[c].value.t = "object"
               /\ completion'[c].value.text = outcome'[c].data.text
               /\ completion'[c].value.impUrl = outcome'[c].data.impUrl
               /\ completion'[c].value.clickUrl = outcome'[c].data.clickUrl
               /\ completion'[c].value.payout = outcome'[c].data.payout
          ELSE completion'[c].value = NullV
       /\ \A d \in Calls \ {c} :
            /\ pc'[d] = pc[d]
            /\ outcome'[d] = outcome[d]
            /\ completion'[d] = completion[d]
            /\ req'[d] = req[d]
            /\ posts'[d] = posts[d]
       /\ apiKey' = apiKey
       /\ excludedTopics' = excludedTopics
       /\ httpClient' = httpClient
       /\ heap' = heap]_vars

\* one call failed with an HTTP 500 and returned null while another call on
\* the same client is still in flight with its request
C22_Witness ==
  \E c, d \in Calls :
    /\ c /= d
    /\ Done(c)
    /\ outcome[c] = Rejected(HttpError)
    /\ Result(c) = NullV
    /\ pc[d] = "awaiting"
    /\ req[d].path = "/bids"

C24_SettingsFixed ==
  [][/\ apiKey \in ApiKeys
     /\ apiKey' = apiKey
     /\ httpClient = [baseURL |-> "https://api.iristech.dev", timeout |-> 10000,
                      contentType |-> "application/json",
                      authorization |-> "Bearer " \o apiKey]
     /\ httpClient' = httpClient
     /\ (pc' /= pc \/ returned' \notin (allocated \cup {NoRef})) =>
          /\ excludedTopics' = excludedTopics
          /\ heap'[excludedTopics] = heap[excludedTopics]
     /\ excludedTopics' /= excludedTopics =>
          /\ installed' = excludedTopics'
          /\ heap' = heap
          /\ pc' = pc]_vars

\* after an updateExcludedTopics, a getExcludedTopics and a finished getAd
\* the client still has the settings of its construction
C24_Witness ==
  /\ excludedTopics = 2
  /\ returned /= NoRef
  /\ pc[1] = "done"
  /\ httpClient.timeout = 10000
  /\ httpClient.authorization = "Bearer test-api-key-12345"
  /\ apiKey = "test-api-key-12345"

\* C25: a failed call whose error is an axios error makes exactly one
\* console.error call, whose label follows the precedence response, request,
\* neither: 'API Error' exactly when the error carries a response (with or
\* without a request), 'Network Error' exactly when it carries a request and
\* no response, 'Request Error' exactly when it carries neither.
C25_OneBranchByPrecedence ==
  \A c \in Calls :
    (Done(c) /\ outcome[c].settled = "rejected" /\ outcome[c].error.isAxiosError) =>
      LET e == outcome[c].error
          label == Logs(c)[1].label
      IN /\ Len(Logs(c)) = 1
         /\ (label = "[IrisClient.getAd] API Error:") <=> e.hasResponse
         /\ (label = "[IrisClient.getAd] Network Error:") <=>
              (e.hasRequest /\ ~ e.hasResponse)
         /\ (label = "[IrisClient.getAd] Request Error:") <=>
              (~ e.hasRequest /\ ~ e.hasResponse)

\* an axios error with an HTTP 500 response and a request and a code was
\* logged under 'API Error', not under 'Network Error'
C25_Witness ==
  \E c \in Calls :
    /\ Done(c)
    /\ outcome[c].settled = "rejected"
    /\ outcome[c].error.isAxiosError
    /\ outcome[c].error.hasResponse
    /\ outcome[c].error.hasRequest
    /\ outcome[c].error.status = 500
    /\ outcome[c].error.code = Str("ECONNABORTED")
    /\ Logs(c) = << LogEntry("[IrisClient.getAd] API Error:", "object", 500,
                             "Internal Server Error", "Endpoint not found", "",
                             Undefined, NoError) >>

\* C26: a click changes neither the fetch calls made nor the effect waiting
\* to run, so an impression count of at most one stays at most one; and a
\* click without custom handler on a non-empty clickUrl adds exactly one
\* window.open call, the second click as the first.
C26_ClicksApartFromImpressions ==
  [][clicks' = clicks + 1 =>
       /\ fetchCalls' = fetchCalls
       /\ pendingEffect' = pendingEffect
       /\ inflight' = inflight
       /\ (Len(fetchCalls) <= 1 => Len(fetchCalls') <= 1)
       /\ (/\ ~ props.onButtonClick
           /\ props.ad.clickUrl.t = "string"
           /\ props.ad.clickUrl.s /= "") =>
            (/\ Len(openCalls') = Len(openCalls) + 1
             /\ openCalls'[Len(openCalls')].url = props.ad.clickUrl)]_vars

\* an instance activated once, with one impression made, was clicked twice
\* and opened its clickUrl twice
C26_Witness ==
  /\ mounted
  /\ activations = 1
  /\ Len(fetchCalls) = 1
  /\ clicks = 2
  /\ ~ props.onButtonClick
  /\ props.ad.clickUrl = Str("https://example.com/click")
  /\ Len(openCalls) = 2
  /\ openCalls[1].url = Str("https://example.com/click")
  /\ openCalls[2].url = Str("https://example.com/click")

====
